---- MODULE Spec2Model ----
(***************************************************************************)
(* Model of main.py: a disposable-inbox client for the mail.tm API.        *)
(*                                                                         *)
(* Strings are sequences of one-character strings; Python's None is the    *)
(* value None below.  main() is a sequence of steps, one per remote        *)
(* request: each step sends the request, takes a response chosen from a    *)
(* small set (a JSON body, or an exception raised by requests), and runs   *)
(* the code that follows up to the next request.  An exception nothing     *)
(* catches ends the run (pc = "failed", err says where and what).          *)
(*                                                                         *)
(* stdout is modelled by reported, shown and masked, the lines the         *)
(* properties speak of; calls counts the requests sent per endpoint.       *)
(* A local that no later statement reads is dropped (set back to its       *)
(* initial value) at the end of the stage or loop pass that used it.       *)
(*                                                                         *)
(* Spec is a run of main(); SpecOtp and SpecMask call extract_otp and      *)
(* safe_print_account on their own, on every input of a bounded set.       *)
(***************************************************************************)
EXTENDS Integers, Sequences, FiniteSets

VARIABLES
    pc,             \* position of the control flow in main() / the called function
    wanted_domain,  \* main: wanted_domain (after strip)
    address,        \* main: address
    password,       \* main: password
    domains,        \* main: domains (result of list_domains); <<>> before it is assigned
    domain,         \* main: domain or None
    masked,         \* safe_print_account: the password line printed, or None
    token,          \* main: token or None
    max_polls,      \* main: max_polls
    i,              \* main: number of poll iterations completed
    seen_ids,       \* main: seen_ids
    new_msgs,       \* main: the part of new_msgs the inner for loop has still to visit
    text,           \* main / extract_otp: text
    intro,          \* main: intro
    otp,            \* main / extract_otp: otp (the value returned)
    scanned,        \* the arguments extract_otp was called with for the current message
    shown,          \* the OTP line or the body excerpt printed for the current message
    reported,       \* number of "New Message" blocks printed per id
    calls,          \* number of requests sent per endpoint
    created,        \* outcome of the account-creation request, or None
    username_prefix,\* main: username_prefix (after strip)
    data,           \* list_domains / get_token: data, the JSON body returned
    msgs,           \* main: msgs
    err             \* the exception that ended the run, or None

vars == <<pc, wanted_domain, address, password, domains, domain, masked, token,
          max_polls, i, seen_ids, new_msgs, text, intro, otp, scanned, shown,
          reported, calls, created, username_prefix, data, msgs, err>>

----------------------------------------------------------------------------
(* Bounds of the model *)

MaxPolls == 2        \* largest MAX_POLLS explored
MaxMsgs == 2         \* longest message list a poll returns
MaxRuns == 3         \* most runs of one character in a text given to extract_otp on its own
MaxPwLen == 6        \* longest password given to safe_print_account on its own
MaxDomains == 2      \* longest domain list the service returns

(* Constants of the program *)

MinDigits == 4       \* \d{4,8}
MaxDigits == 8       \* \d{4,8}
KeepChars == 2       \* password[:2], password[-2:]
MaskedMin == 4       \* len(password) >= 4
Unmasked == 4        \* len(password) - 4
UserRandLen == 6     \* rand_str(6)
PwRandLen == 10      \* rand_str(10)
PwTailLen == 4       \* rand_str(4)
ExcerptLen == 300    \* text[:300]

----------------------------------------------------------------------------
(* Python values *)

None == <<"None">>

Truthy(x) == x /= None /\ x /= <<>>

Max(a, b) == IF a >= b THEN a ELSE b

Min(a, b) == IF a <= b THEN a ELSE b

\* s[:n]
Prefix(s, n) == SubSeq(s, 1, Min(n, Len(s)))

\* s[-n:]
Suffix(s, n) == SubSeq(s, Max(1, Len(s) - n + 1), Len(s))

Repeat(c, n) == [k \in 1..n |-> c]

Get(m, key) == IF key \in DOMAIN m THEN m[key] ELSE None

Digits == {"1", "2"}

Letters == {"a", "b", "d", "e", "m", "p", "q", "r", "s", "t", "u"}

\* \w
IsWord(c) == c \in Digits \cup Letters \cup {"_"}

\* str.strip()
RECURSIVE LStrip(_)
LStrip(s) == IF s /= <<>> /\ Head(s) = " " THEN LStrip(Tail(s)) ELSE s

RECURSIVE RStrip(_)
RStrip(s) == IF s /= <<>> /\ s[Len(s)] = " " THEN RStrip(SubSeq(s, 1, Len(s) - 1)) ELSE s

Strip(s) == RStrip(LStrip(s))

----------------------------------------------------------------------------
(* extract_otp: re.search(r"\b(\d{4,8})\b", text) *)

\* \b between text[p] and text[p+1]
WordBoundary(t, p) ==
    (p >= 1 /\ IsWord(t[p])) /= (p < Len(t) /\ IsWord(t[p + 1]))

AllDigits(t, from, to) == \A k \in from..to : t[k] \in Digits

MatchEndNoBoundary(t, s, k) == s + k <= Len(t) /\ AllDigits(t, s + 1, s + k)

\* \d{k} matched from offset s, followed by \b
MatchEnd(t, s, k) ==
    s + k <= Len(t) /\ AllDigits(t, s + 1, s + k) /\ WordBoundary(t, s + k)

\* the greedy quantifier: the longest k in MinDigits..MaxDigits first, backing off
RECURSIVE Greedy(_, _, _)
Greedy(t, s, k) ==
    IF k < MinDigits THEN 0
    ELSE IF MatchEnd(t, s, k) THEN k
    ELSE Greedy(t, s, k - 1)

\* the pattern tried at offset s: length of group 1, or 0
MatchAt(t, s) == IF WordBoundary(t, s) THEN Greedy(t, s, MaxDigits) ELSE 0

\* re.search tries each offset from the left and stops at the first that matches
Search(t) ==
    LET hits == {s \in 0..Len(t) : MatchAt(t, s) > 0}
    IN  IF hits = {} THEN None
        ELSE LET s == CHOOSE x \in hits : \A y \in hits : x <= y
             IN  SubSeq(t, s + 1, s + MatchAt(t, s))

extract_otp(t) == IF ~Truthy(t) THEN None ELSE Search(t)

----------------------------------------------------------------------------
(* safe_print_account *)

MaskNoLengthTest(p) ==
    Prefix(p, KeepChars) \o Repeat("*", Max(0, Len(p) - Unmasked)) \o Suffix(p, KeepChars)

Mask(p) ==
    IF Len(p) >= MaskedMin
    THEN Prefix(p, KeepChars) \o Repeat("*", Max(0, Len(p) - Unmasked))
             \o Suffix(p, KeepChars)
    ELSE <<"*", "*", "*">>

----------------------------------------------------------------------------
(* The remote service and the environment: the inputs of a run *)

Range(s) == {s[k] : k \in 1..Len(s)}

SeqsUpTo(S, n) == UNION {[1..k -> S] : k \in 0..n}

Endpoints == {"domains", "accounts", "token", "messages", "message"}

\* requests.get / requests.post raise (no connection, timeout) or raise_for_status
\* raises, or r.json() raises: only the second is a requests.HTTPError
ApiErrors == {"HTTPError", "ConnectionError"}

NoJson == [null |-> <<>>]

D1 == <<"d">>

D2 == <<"e">>

\* MAILTM_DOMAIN as set in the environment, before strip
EnvDomains == {<<>>, <<" ">>, <<" ", "d">>, <<"m", " ">>}

\* MAILTM_ADDRESS, MAILTM_PASSWORD, MAILTM_USERNAME_PREFIX as set in the
\* environment, before strip
EnvAccounts ==
    { <<(<<>>), (<<>>), (<<>>)>>,
      <<(<<>>), (<<>>), (<<" ", "b">>)>>,
      <<(<<"u", "@", "d">>), (<<" ">>), (<<>>)>>,
      <<(<<"u", "@", "d">>), (<<"p", "q", " ">>), (<<>>)>> }

DomainEntries == {[domain |-> D1], [domain |-> D2], [domain |-> <<>>], [id |-> <<"x">>]}

DomainResponses ==
    {[context |-> <<>>]} \cup
    {[member |-> l] : l \in SeqsUpTo(DomainEntries, MaxDomains)}

TokenResponses == {[token |-> <<"t">>], [token |-> <<>>], [message |-> <<"m">>]}

A == <<"a">>

B == <<"b">>

IdValues == {None, <<>>, A, B}

IntroCode == <<"1", "2", "1", "2">>

IntroPlain == <<"a", "1", "2", "1", "2">>

MsgEntries ==
    { [id |-> A, intro |-> IntroCode], [id |-> B, intro |-> IntroPlain], [id |-> B],
      [id |-> <<>>, intro |-> IntroCode], [intro |-> IntroPlain] }

MessagesResponses ==
    {[context |-> <<>>]} \cup
    {[member |-> l] : l \in SeqsUpTo(MsgEntries, MaxMsgs)}

LongBody == Repeat("a", ExcerptLen) \o <<"2", "2", "2", "2">>

BodyCode == <<"a", " ", "2", "2", "2", "2", "2", ".">>

BodyPlain == <<"a", "2", "2", "2", "2">>

MessageResponses ==
    { [html |-> <<"h">>], [text |-> None],
      [text |-> BodyCode], [text |-> BodyPlain], [text |-> LongBody] }

\* rand_str(n): n characters drawn from ascii_lowercase + digits
RandChars == {"a", "1"}

rand_str(n) == {Repeat(c, n) : c \in RandChars}

----------------------------------------------------------------------------
(* main *)

Raise(where, type) ==
    /\ pc' = "failed"
    /\ err' = <<where, type>>

Called(endpoint) == calls' = [calls EXCEPT ![endpoint] = @ + 1]

\* data.get("hydra:member", []); the field is written member in the model
MemberOf(d) == IF "member" \in DOMAIN d THEN d.member ELSE <<>>

\* list_domains keeping every entry that has a "domain" field, empty or not
list_domains_unfiltered(d) ==
    LET HasField(e) == "domain" \in DOMAIN e
        named == SelectSeq(MemberOf(d), HasField)
    IN  [k \in 1..Len(named) |-> named[k].domain]

\* list_domains: the truthy "domain" fields of data["hydra:member"], in order
list_domains(d) ==
    LET IsNamed(e) == Truthy(Get(e, "domain"))
        named == SelectSeq(MemberOf(d), IsNamed)
    IN  [k \in 1..Len(named) |-> named[k].domain]

\* domain selection without the fallback to an available domain
DomainChoicesNoFallback(wanted, doms) ==
    IF Truthy(wanted) THEN {wanted} ELSE Range(doms)

\* the values main can assign to domain (random.choice is any member)
DomainChoices(wanted, doms) ==
    IF Truthy(wanted)
    THEN IF wanted \notin Range(doms) THEN Range(doms) ELSE {wanted}
    ELSE Range(doms)

NeedsAccount(a, p) == ~Truthy(a) \/ ~Truthy(p)

ListDomains ==
    /\ pc = "list_domains"
    /\ Called("domains")
    /\ \/ \E e \in ApiErrors :
             /\ Raise("list_domains", e)
             /\ UNCHANGED <<domains, domain, data>>
       \/ \E r \in DomainResponses :
             /\ data' = r
             /\ domains' = list_domains(r)
             /\ IF domains' = <<>>
                THEN /\ Raise("main", "RuntimeError")
                     /\ UNCHANGED domain
                ELSE /\ domain' \in DomainChoices(wanted_domain, domains')
                     /\ pc' = IF NeedsAccount(address, password)
                              THEN "create_account" ELSE "get_token"
                     /\ UNCHANGED err
    /\ UNCHANGED <<wanted_domain, address, password, masked, token, max_polls, i,
                   seen_ids, new_msgs, text, intro, otp, scanned, shown, reported,
                   created, username_prefix, msgs>>

\* a handler for the wrong exception class
CaughtTimeoutOnly(e) == e = "ConnectionError"

\* except requests.HTTPError
Caught(e) == e = "HTTPError"

CreateAccount ==
    /\ pc = "create_account"
    /\ username_prefix' = IF ~Truthy(username_prefix)
                          THEN <<"u", "s", "e", "r">> ELSE username_prefix
    /\ \E r \in rand_str(UserRandLen) :
           address' = username_prefix' \o r \o <<"@">> \o domain
    /\ \E r1 \in rand_str(PwRandLen), r2 \in rand_str(PwTailLen) :
           password' = r1 \o <<"#", "@">> \o r2
    /\ Called("accounts")
    /\ \/ /\ created' = "ok"
          /\ pc' = "get_token"
          /\ UNCHANGED err
       \/ \E e \in ApiErrors :
             /\ created' = e
             /\ IF Caught(e)
                THEN pc' = "get_token" /\ UNCHANGED err
                ELSE Raise("create_account", e)
    /\ UNCHANGED <<wanted_domain, domains, domain, masked, token, max_polls, i,
                   seen_ids, new_msgs, text, intro, otp, scanned, shown, reported,
                   data, msgs>>

\* get_token testing "token is None"
TokenMissingNoneOnly(t) == t = None

\* get_token: if not token
TokenMissing(t) == ~Truthy(t)

\* Step 3 of main, up to the first pass of the poll loop.  After it main reads only
\* token and max_polls: the other locals of the provisioning steps, and the lines
\* they printed, are forgotten when the loop is entered, so that runs differing
\* only in values never read again share their states.  A run that fails here
\* keeps them.
GetToken ==
    /\ pc = "get_token"
    /\ Called("token")
    /\ \/ \E e \in ApiErrors :
             /\ Raise("get_token", e)
             /\ masked' = Mask(password)
             /\ UNCHANGED <<token, data, wanted_domain, address, password, domains,
                            domain, username_prefix>>
       \/ \E r \in TokenResponses :
             IF TokenMissing(Get(r, "token"))
             THEN /\ Raise("get_token", "RuntimeError")
                  /\ masked' = Mask(password)
                  /\ data' = r
                  /\ UNCHANGED <<token, wanted_domain, address, password, domains,
                                 domain, username_prefix>>
             ELSE /\ token' = r.token
                  /\ pc' = "fetch_messages"
                  /\ masked' = None
                  /\ data' = NoJson
                  /\ wanted_domain' = None
                  /\ address' = None
                  /\ password' = None
                  /\ domains' = <<>>
                  /\ domain' = None
                  /\ username_prefix' = None
                  /\ UNCHANGED err
    /\ UNCHANGED <<max_polls, i, seen_ids, new_msgs, text, intro, otp, scanned, shown,
                   reported, created, msgs>>

----------------------------------------------------------------------------
(* main: the poll loop *)

\* the filter without its m.get("id") test
IsNewNoIdTest(m, seen) == Get(m, "id") \notin seen

\* [m for m in msgs if m.get("id") and m.get("id") not in seen_ids]
IsNew(m, seen) == Truthy(Get(m, "id")) /\ Get(m, "id") \notin seen

NewMsgs(list, seen) ==
    LET Test(m) == IsNew(m, seen)
    IN  SelectSeq(list, Test)

\* a loop that runs once more than its budget
LoopContinuesOnceMore(done, budget) == done <= budget

\* for i in range(max_polls)
LoopContinues(done, budget) == done < budget

FetchMessages ==
    /\ pc = "fetch_messages"
    /\ LoopContinues(i, max_polls)
    /\ Called("messages")
    /\ \/ \E e \in ApiErrors :
             /\ Raise("fetch_messages", e)
             /\ UNCHANGED <<msgs, new_msgs>>
       \/ \E r \in MessagesResponses :
             /\ msgs' = MemberOf(r)
             /\ IF msgs' /= <<>>
                THEN /\ new_msgs' = NewMsgs(msgs', seen_ids)
                     /\ pc' = IF new_msgs' /= <<>> THEN "read_message" ELSE "sleep"
                ELSE /\ pc' = "sleep"
                     /\ UNCHANGED new_msgs
             /\ UNCHANGED err
    /\ UNCHANGED <<wanted_domain, address, password, domains, domain, masked, token,
                   max_polls, i, seen_ids, text, intro, otp, scanned, shown, reported,
                   created, username_prefix, data>>

\* d.get(key, "") or ""
GetOrEmpty(d, key) ==
    LET v == IF key \in DOMAIN d THEN d[key] ELSE <<>>
    IN  IF Truthy(v) THEN v ELSE <<>>

\* extract_otp(intro) or extract_otp(text)
FindOtpIntroFirst(t, n) ==
    LET first == extract_otp(n)
    IN  IF Truthy(first)
        THEN [otp |-> first, scanned |-> <<"intro">>]
        ELSE [otp |-> extract_otp(t), scanned |-> <<"intro", "text">>]

\* otp = extract_otp(text) or extract_otp(intro): the value, and the arguments
\* extract_otp was called with (the right operand is evaluated only when the left
\* is falsy)
FindOtp(t, n) ==
    LET first == extract_otp(t)
    IN  IF Truthy(first)
        THEN [otp |-> first, scanned |-> <<"text">>]
        ELSE [otp |-> extract_otp(n), scanned |-> <<"text", "intro">>]

Placeholder == <<"(no text body)">>

\* the line printed after the summary of a new message
Shown(code, t) ==
    IF Truthy(code)
    THEN <<"otp", code>>
    ELSE <<"excerpt", IF Truthy(t) THEN Prefix(t, ExcerptLen) ELSE Placeholder>>

\* one pass of "for m in new_msgs"
ReadMessage ==
    /\ pc = "read_message"
    /\ LET m == Head(new_msgs)
           mid == Get(m, "id")
       IN  /\ seen_ids' = seen_ids \cup {mid}
           /\ intro' = IF "intro" \in DOMAIN m THEN m.intro ELSE <<>>
           /\ reported' = [reported EXCEPT ![mid] = @ + 1]
           /\ Called("message")
           /\ \/ \E e \in ApiErrors :
                    /\ Raise("read_message", e)
                    /\ scanned' = <<>>
                    /\ shown' = None
                    /\ UNCHANGED <<text, otp, new_msgs>>
              \/ \E full \in MessageResponses :
                    LET body == GetOrEmpty(full, "text")
                        found == FindOtp(body, intro')
                    IN  /\ text' = body
                        /\ scanned' = found.scanned
                        /\ otp' = found.otp
                        /\ shown' = Shown(found.otp, body)
                        /\ new_msgs' = Tail(new_msgs)
                        /\ pc' = IF new_msgs' /= <<>> THEN "read_message" ELSE "sleep"
                        /\ UNCHANGED err
    /\ UNCHANGED <<wanted_domain, address, password, domains, domain, masked, token,
                   max_polls, i, created, username_prefix, data, msgs>>

\* time.sleep(poll_seconds), then the next i.  msgs, new_msgs, intro, text and otp
\* are assigned again in the next pass before anything reads them, and the lines of
\* the next message follow on stdout: the pass ends with them forgotten, so that
\* runs differing only in values never read again share their states.
Sleep ==
    /\ pc = "sleep"
    /\ i' = i + 1
    /\ pc' = "fetch_messages"
    /\ msgs' = <<>>
    /\ new_msgs' = <<>>
    /\ intro' = None
    /\ text' = None
    /\ otp' = None
    /\ scanned' = <<>>
    /\ shown' = None
    /\ UNCHANGED <<wanted_domain, address, password, domains, domain, masked, token,
                   max_polls, seen_ids, reported, calls, created, username_prefix,
                   data, err>>

\* range(max_polls) is used up: "Done polling."
DonePolling ==
    /\ pc = "fetch_messages"
    /\ ~LoopContinues(i, max_polls)
    /\ pc' = "done"
    /\ UNCHANGED <<wanted_domain, address, password, domains, domain, masked, token,
                   max_polls, i, seen_ids, new_msgs, text, intro, otp, scanned, shown,
                   reported, calls, created, username_prefix, data, msgs, err>>

----------------------------------------------------------------------------
(* The run of main() *)

Idle ==
    /\ domains = <<>>
    /\ domain = None
    /\ masked = None
    /\ token = None
    /\ i = 0
    /\ seen_ids = {}
    /\ new_msgs = <<>>
    /\ intro = None
    /\ otp = None
    /\ scanned = <<>>
    /\ shown = None
    /\ reported = [id \in IdValues |-> 0]
    /\ calls = [e \in Endpoints |-> 0]
    /\ created = None
    /\ data = NoJson
    /\ msgs = <<>>
    /\ err = None

Init ==
    /\ pc = "list_domains"
    /\ \E raw \in EnvDomains : wanted_domain = Strip(raw)
    /\ \E raw \in EnvAccounts :
          /\ address = Strip(raw[1])
          /\ password = Strip(raw[2])
          /\ username_prefix = Strip(raw[3])
    /\ max_polls \in -1..MaxPolls
    /\ text = None
    /\ Idle

Next ==
    \/ ListDomains
    \/ CreateAccount
    \/ GetToken
    \/ FetchMessages
    \/ ReadMessage
    \/ Sleep
    \/ DonePolling

Spec == Init /\ [][Next]_vars

----------------------------------------------------------------------------
(* extract_otp and safe_print_account called on their own *)

TextChars == {"1", "2", "a", "_", " "}

RunLens == {1, MinDigits, MaxDigits}

Runs == {Repeat(c, n) : c \in TextChars, n \in RunLens}

RECURSIVE Flatten(_)
Flatten(ss) == IF ss = <<>> THEN <<>> ELSE Head(ss) \o Flatten(Tail(ss))

Texts == {Flatten(ss) : ss \in SeqsUpTo(Runs, MaxRuns)}

PwChars == {"p", "q", "*"}

Passwords == SeqsUpTo(PwChars, MaxPwLen)

NoEnv ==
    /\ wanted_domain = None
    /\ address = None
    /\ username_prefix = None
    /\ max_polls = 0

InitOtp ==
    /\ pc = "extract_otp"
    /\ text \in Texts
    /\ password = None
    /\ NoEnv
    /\ Idle

ExtractOtp ==
    /\ pc = "extract_otp"
    /\ otp' = extract_otp(text)
    /\ pc' = "returned"
    /\ UNCHANGED <<wanted_domain, address, password, domains, domain, masked, token,
                   max_polls, i, seen_ids, new_msgs, text, intro, scanned, shown,
                   reported, calls, created, username_prefix, data, msgs, err>>

NextOtp == ExtractOtp

SpecOtp == InitOtp /\ [][NextOtp]_vars

InitMask ==
    /\ pc = "safe_print_account"
    /\ password \in Passwords
    /\ text = None
    /\ NoEnv
    /\ Idle

SafePrintAccount ==
    /\ pc = "safe_print_account"
    /\ masked' = Mask(password)
    /\ pc' = "returned"
    /\ UNCHANGED <<wanted_domain, address, password, domains, domain, token,
                   max_polls, i, seen_ids, new_msgs, text, intro, otp, scanned, shown,
                   reported, calls, created, username_prefix, data, msgs, err>>

NextMask == SafePrintAccount

SpecMask == InitMask /\ [][NextMask]_vars

----------------------------------------------------------------------------
(* Properties *)

\* a run of k digits starting after offset s with no letter, digit or underscore
\* on either side
IsStandaloneRun(t, s, k) ==
    /\ s + k <= Len(t)
    /\ \A j \in (s + 1)..(s + k) : t[j] \in Digits
    /\ s = 0 \/ ~IsWord(t[s])
    /\ s + k = Len(t) \/ ~IsWord(t[s + k + 1])

StandaloneRuns(t) ==
    {r \in (0..Len(t)) \X (4..8) : IsStandaloneRun(t, r[1], r[2])}

\* C2: extract_otp returns the leftmost run of 4 to 8 digits that has no letter,
\* digit or underscore on either side, and None exactly when the text is empty or
\* holds no such run.
C2_FirstStandaloneRun ==
    pc = "returned" /\ password = None =>
        IF StandaloneRuns(text) = {}
        THEN otp = None
        ELSE \E r \in StandaloneRuns(text) :
                /\ \A q \in StandaloneRuns(text) : r[1] <= q[1]
                /\ otp = SubSeq(text, r[1] + 1, r[1] + r[2])

\* a text with two standalone runs, one of them after offset 8: a run is returned
C2_Witness ==
    /\ pc = "returned"
    /\ password = None
    /\ Cardinality(StandaloneRuns(text)) >= 2
    /\ \E r \in StandaloneRuns(text) : r[1] > 8
    /\ otp /= None

C1_ReportedAtMostOnce == \A id \in IdValues : reported[id] <= 1

\* C3: the domain chosen is a member of the available list; it is the desired
\* domain when that is in the list, and never the desired domain when that is set
\* but not in the list.
C3_DomainFromList ==
    domain /= None =>
        /\ domain \in Range(domains)
        /\ wanted_domain \in Range(domains) => domain = wanted_domain
        /\ Truthy(wanted_domain) /\ wanted_domain \notin Range(domains)
               => domain /= wanted_domain

\* a desired domain that is not offered, and two domains to choose from
C3_Witness ==
    /\ domain /= None
    /\ Truthy(wanted_domain)
    /\ wanted_domain \notin Range(domains)
    /\ Cardinality(Range(domains)) >= 2

\* the poll loop has been entered
LoopStarted == token /= None

\* len(range(max_polls))
Budget == IF max_polls > 0 THEN max_polls ELSE 0

Generated ==
    /\ Truthy(username_prefix)
    /\ address \in {username_prefix \o r \o <<"@">> \o domain : r \in rand_str(UserRandLen)}
    /\ password \in {r1 \o <<"#", "@">> \o r2 :
                        r1 \in rand_str(PwRandLen), r2 \in rand_str(PwTailLen)}

\* C6 as stated: whatever way the account-creation request fails, the run does not
\* end there and the token request is made or about to be made.
C6_CreateFailureNotFatal ==
    created \in ApiErrors =>
        /\ ~(pc = "failed" /\ err[1] = "create_account")
        /\ pc = "get_token" \/ calls["token"] = 1

\* C6 as amended: when the account-creation request fails with an HTTP error
\* status (requests.HTTPError), the run does not end there: the token request is
\* the next step, or has been made, and it is made with the generated address and
\* password.
C6_HttpErrorNotFatal ==
    created = "HTTPError" =>
        /\ ~(pc = "failed" /\ err[1] = "create_account")
        /\ \/ pc = "get_token" /\ ENABLED GetToken /\ calls["token"] = 0 /\ Generated
           \/ calls["token"] = 1
        /\ calls["token"] = 1 /\ token = None => Generated

\* account creation failed with an HTTP error and the token was obtained all the same
C6_Witness ==
    /\ created = "HTTPError"
    /\ calls["token"] = 1
    /\ token /= None

\* C7: at most one token request is made; when it yields no token (the request
\* raised, or the response has no token or an empty one) the run has ended with an
\* error raised in get_token and no message list or message was ever fetched; the
\* loop is entered only with a non-empty token.
C7_TokenFailureFatal ==
    /\ calls["token"] <= 1
    /\ calls["token"] = 1 /\ token = None =>
          /\ pc = "failed"
          /\ err[1] = "get_token"
          /\ ~ENABLED Next
          /\ calls["messages"] = 0
          /\ calls["message"] = 0
    /\ pc = "failed" /\ err = <<"get_token", "RuntimeError">> => ~Truthy(Get(data, "token"))
    /\ token /= None => Truthy(token)
    /\ calls["messages"] > 0 => Truthy(token)

\* a token response with an empty token ended the run
C7_Witness ==
    /\ pc = "failed"
    /\ err = <<"get_token", "RuntimeError">>
    /\ "token" \in DOMAIN data
    /\ calls["token"] = 1
    /\ calls["messages"] = 0

\* no entry of the member list of d has a domain name (the list may be missing)
NoUsableDomain(d) ==
    \A k \in 1..Len(MemberOf(d)) : ~Truthy(Get(MemberOf(d)[k], "domain"))

\* C8: when the domain listing raised, or its member list is missing, empty or
\* without a domain name, the run has ended with an error and no account, token,
\* message-list or message request has been made.  (Until the token request, data
\* is the response of the domain listing, or nothing when the listing raised.)
C8_NoDomainsFatal ==
    calls["domains"] = 1 /\ calls["token"] = 0 /\ NoUsableDomain(data) =>
        /\ pc = "failed"
        /\ err[1] \in {"list_domains", "main"}
        /\ ~ENABLED Next
        /\ \A e \in Endpoints \ {"domains"} : calls[e] = 0

\* a member list with entries, none of which names a domain
C8_Witness ==
    /\ pc = "failed"
    /\ err = <<"main", "RuntimeError">>
    /\ calls["domains"] = 1
    /\ Len(MemberOf(data)) >= 1

\* C9: for the message just reported, the code printed is the one found in the
\* body text if there is one, otherwise the one found in the intro; the intro is
\* scanned only when the body has none; the body excerpt (its first 300
\* characters, or the placeholder when the body is empty) is printed exactly when
\* neither has a code.
C9_BodyThenIntro ==
    shown /= None =>
        LET inBody == extract_otp(text)
            inIntro == extract_otp(intro)
        IN  /\ inBody /= None => shown = <<"otp", inBody>> /\ scanned = <<"text">>
            /\ inBody = None => scanned = <<"text", "intro">>
            /\ inBody = None /\ inIntro /= None => shown = <<"otp", inIntro>>
            /\ shown[1] = "excerpt" <=> inBody = None /\ inIntro = None
            /\ shown[1] = "excerpt" /\ text = <<>> => shown[2] = Placeholder
            /\ shown[1] = "excerpt" /\ text /= <<>> =>
                  /\ Len(shown[2]) = IF Len(text) < 300 THEN Len(text) ELSE 300
                  /\ \A k \in 1..Len(shown[2]) : shown[2][k] = text[k]

\* a body without a code and an intro with one
C9_Witness ==
    /\ shown /= None
    /\ text /= <<>>
    /\ extract_otp(text) = None
    /\ shown = <<"otp", intro>>

\* C10: an entry without an id, or with an empty one, is never reported, never has
\* its body fetched and never enters seen_ids: seen_ids holds only non-empty ids
\* that were reported, every body fetched belongs to a reported id, the entries
\* still to be visited have non-empty ids, and seen_ids never loses a member.
C10_State ==
    /\ reported[None] = 0
    /\ reported[<<>>] = 0
    /\ \A id \in seen_ids : Truthy(id) /\ reported[id] >= 1
    /\ \A id \in IdValues : reported[id] >= 1 => id \in seen_ids
    /\ calls["message"] = reported[A] + reported[B]
    /\ \A k \in 1..Len(new_msgs) : Truthy(Get(new_msgs[k], "id"))

C10_EmptyIdsIgnored == []C10_State /\ [][seen_ids \subseteq seen_ids']_vars

\* a list with an entry without usable id and a new message, which was reported
C10_Witness ==
    /\ pc = "sleep"
    /\ \E k \in 1..Len(msgs) : ~Truthy(Get(msgs[k], "id"))
    /\ seen_ids /= {}

====
